---------------------------- MODULE Spec2Model ----------------------------
(***************************************************************************)
(* Cabinet panel calculator (src/src/App.jsx): the numeric parser, the     *)
(* box-height resolver, the per-row panel expansion, the cross-row         *)
(* aggregation with its sort, and the App component: its row state, its    *)
(* handlers, its memoized summary and its CSV export.                      *)
(*                                                                         *)
(* JavaScript strings are sequences of one-character strings; JavaScript   *)
(* numbers are IEEE-754 doubles (see below).                               *)
(***************************************************************************)
EXTENDS Integers, Sequences, FiniteSets, TLC

VARIABLES
    value,          \* parseNumber: the argument
    parsed,         \* parseNumber: the returned value
    row,            \* computePanelsForRow: the argument
    boxHeightEffective, \* computePanelsForRow: its local of that name
    panels,         \* computePanelsForRow: the returned array
    rows,           \* aggregatePanels: the argument (the App's row list)
    panelSummary,   \* aggregatePanels: the returned array
    pc,             \* "call" before the function under check runs, "done"
                    \* after; in the App, the handler that ran last
    nextId,         \* App: the state of that name
    rowsRef,        \* App: which array the state rows holds (its identity)
    memoDeps,       \* App: the rows array that useMemo last computed for
    download,       \* App: the file that the last click on the link saved
    closure         \* App: the rows and the nextId of the last render, which
                    \* the handlers of that render hold

appVars == <<nextId, rowsRef, memoDeps, download, closure>>

vars == <<value, parsed, row, boxHeightEffective, panels, rows, panelSummary, pc,
          nextId, rowsRef, memoDeps, download, closure>>

----------------------------------------------------------------------------
(* JavaScript values handed to parseNumber *)

JSNull == [type |-> "null", chars |-> <<>>]
JSUndefined == [type |-> "undefined", chars |-> <<>>]
Str(s) == [type |-> "string", chars |-> s]

(* JavaScript numbers: IEEE-754 binary64.  A finite number is its sign and *)
(* its magnitude in fixed point: mag = <<i, f1, f2, f3, f4>> stands for    *)
(* i + f1/2^16 + f2/2^32 + f3/2^48 + f4/2^64, each f a limb of 16 bits.    *)
(* Every double whose magnitude is 0 or lies in [2^-11, 2^19) is such a    *)
(* value, and the texts and results of this model stay within that range.  *)
(* Sums, differences and small multiples are formed exactly on the grid    *)
(* and then rounded to the 53 significant bits of a double, to nearest,    *)
(* ties to even.  -0 is identified with 0: no operation of the code tells  *)
(* them apart.                                                             *)

LimbBase == 2^16

ZeroMag == <<0, 0, 0, 0, 0>>

MkNum(neg, mag) == [kind |-> "num", neg |-> (neg /\ mag # ZeroMag), mag |-> mag]

NaN == [kind |-> "NaN", neg |-> FALSE, mag |-> ZeroMag]
PosInfinity == [kind |-> "Infinity", neg |-> FALSE, mag |-> ZeroMag]
NegInfinity == [kind |-> "Infinity", neg |-> TRUE, mag |-> ZeroMag]
\* The null that parseNumber returns for an absent value.  In arithmetic
\* and in comparisons null counts as 0.
Absent == [kind |-> "null", neg |-> FALSE, mag |-> ZeroMag]

Max(a, b) == IF a >= b THEN a ELSE b

\* a + b on magnitudes, exact.
MagAdd(a, b) ==
    LET s5 == a[5] + b[5]
        s4 == a[4] + b[4] + (s5 \div LimbBase)
        s3 == a[3] + b[3] + (s4 \div LimbBase)
        s2 == a[2] + b[2] + (s3 \div LimbBase)
        s1 == a[1] + b[1] + (s2 \div LimbBase)
    IN  <<s1, s2 % LimbBase, s3 % LimbBase, s4 % LimbBase, s5 % LimbBase>>

\* a - b on magnitudes with a >= b, exact.
MagSub(a, b) ==
    LET d5 == a[5] - b[5]
        d4 == a[4] - b[4] + (d5 \div LimbBase)
        d3 == a[3] - b[3] + (d4 \div LimbBase)
        d2 == a[2] - b[2] + (d3 \div LimbBase)
        d1 == a[1] - b[1] + (d2 \div LimbBase)
    IN  <<d1, d2 % LimbBase, d3 % LimbBase, d4 % LimbBase, d5 % LimbBase>>

MagLess(a, b) ==
    \E k \in 1..5 : a[k] < b[k] /\ \A j \in 1..(k - 1) : a[j] = b[j]

RECURSIVE BitLen(_)
\* The number of bits of a natural number.
BitLen(n) == IF n = 0 THEN 0 ELSE 1 + BitLen(n \div 2)

\* How many of the 64 fraction bits lie below the 53 significant bits.
DropBits(mag) ==
    IF mag[1] > 0 THEN 11 + BitLen(mag[1]) ELSE Max(0, BitLen(mag[2]) - 5)

\* The magnitude rounded to 53 significant bits, to nearest, ties to even;
\* sticky tells that the exact value lies above mag by less than 2^-64.
RoundMag(mag, sticky) ==
    LET d == DropBits(mag)
    IN  IF d = 0 THEN mag
        ELSE IF d < 16
        THEN LET w == 2^d
                 low == mag[5] % w
                 odd == (mag[5] \div w) % 2 = 1
                 cut == <<mag[1], mag[2], mag[3], mag[4], mag[5] - low>>
                 up == low * 2 > w \/ (low * 2 = w /\ (sticky \/ odd))
             IN  IF up THEN MagAdd(cut, <<0, 0, 0, 0, w>>) ELSE cut
        ELSE LET w == 2^(d - 16)
                 low == (mag[4] % w) * LimbBase + mag[5]
                 odd == (mag[4] \div w) % 2 = 1
                 cut == <<mag[1], mag[2], mag[3], mag[4] - (mag[4] % w), 0>>
                 half == w * (LimbBase \div 2)
                 up == low > half \/ (low = half /\ (sticky \/ odd))
             IN  IF up THEN MagAdd(cut, <<0, 0, 0, w, 0>>) ELSE cut

\* a + b on finite numbers (null as 0).
Add(a, b) ==
    IF a.neg = b.neg THEN MkNum(a.neg, RoundMag(MagAdd(a.mag, b.mag), FALSE))
    ELSE IF MagLess(a.mag, b.mag)
    THEN MkNum(b.neg, RoundMag(MagSub(b.mag, a.mag), FALSE))
    ELSE MkNum(a.neg, RoundMag(MagSub(a.mag, b.mag), FALSE))

Negated(a) == MkNum(~a.neg, a.mag)

\* a - b on finite numbers (null as 0).
Sub(a, b) == Add(a, Negated(b))

RECURSIVE MagTimes(_, _)
\* k * mag for a natural number k, exact.
MagTimes(k, mag) == IF k = 0 THEN ZeroMag ELSE MagAdd(MagTimes(k - 1, mag), mag)

\* k * a for a small natural literal k and a finite number a.
Times(k, a) == MkNum(a.neg, RoundMag(MagTimes(k, a.mag), FALSE))

\* a < b and a <= b on finite numbers (null as 0).
Less(a, b) ==
    IF a.neg /\ ~b.neg THEN TRUE
    ELSE IF ~a.neg /\ b.neg THEN FALSE
    ELSE IF a.neg THEN MagLess(b.mag, a.mag)
    ELSE MagLess(a.mag, b.mag)

LessEq(a, b) == ~Less(b, a)

Zero == MkNum(FALSE, ZeroMag)

Positive(a) == Less(Zero, a)

\* Number.isFinite
IsFinite(x) == x.kind = "num"

----------------------------------------------------------------------------
(* Decimal text to number and back.  A decimal is an integer part and the  *)
(* sequence of its fraction digits.                                        *)

Digits == <<"0", "1", "2", "3", "4", "5", "6", "7", "8", "9">>

IsDigit(c) == \E i \in 1..10 : Digits[i] = c

DigitVal(c) == (CHOOSE i \in 1..10 : Digits[i] = c) - 1

RECURSIVE DoubleDigits(_, _, _)
\* The decimal fraction 0.ds doubled: <<c, ds2>> with 2 * 0.ds = c + 0.ds2.
\* Digits k+1.. are done and are the sequence done, with carry c.
DoubleDigits(ds, k, acc) ==
    IF k = 0 THEN acc
    ELSE LET t == 2 * ds[k] + acc[1]
         IN  DoubleDigits(ds, k - 1, <<t \div 10, <<t % 10>> \o acc[2]>>)

AllZero(ds) == \A k \in DOMAIN ds : ds[k] = 0

RECURSIVE FractionLimb(_, _, _)
\* The next n bits of the binary expansion of 0.ds, as a number added to
\* 2^n * limb, and the decimal fraction that remains: <<limb, ds2>>.
FractionLimb(ds, n, limb) ==
    IF n = 0 THEN <<limb, ds>>
    ELSE IF AllZero(ds) THEN <<limb * 2^n, ds>>
    ELSE LET dd == DoubleDigits(ds, Len(ds), <<0, << >> >>)
         IN  FractionLimb(dd[2], n - 1, 2 * limb + dd[1])

\* The double nearest to the decimal ip.ds, negated if neg.
Dec(neg, ip, ds) ==
    LET l1 == FractionLimb(ds, 16, 0)
        l2 == FractionLimb(l1[2], 16, 0)
        l3 == FractionLimb(l2[2], 16, 0)
        l4 == FractionLimb(l3[2], 16, 0)
    IN  IF AllZero(ds) THEN MkNum(neg, <<ip, 0, 0, 0, 0>>)
        ELSE MkNum(neg, RoundMag(<<ip, l1[1], l2[1], l3[1], l4[1]>>, ~AllZero(l4[2])))

\* The fraction limbs times ten: <<digit, limbs>>, the next decimal digit
\* and the fraction that remains.
TimesTen(f) ==
    LET t4 == f[4] * 10
        t3 == f[3] * 10 + (t4 \div LimbBase)
        t2 == f[2] * 10 + (t3 \div LimbBase)
        t1 == f[1] * 10 + (t2 \div LimbBase)
    IN  <<t1 \div LimbBase,
          <<t1 % LimbBase, t2 % LimbBase, t3 % LimbBase, t4 % LimbBase>> >>

RECURSIVE FractionDigits(_, _, _)
\* The first n decimal digits of the binary fraction f, appended to ds, and
\* the fraction that remains: <<ds, f2>>.
FractionDigits(f, n, ds) ==
    IF n = 0 THEN <<ds, f>>
    ELSE LET t == TimesTen(f)
         IN  FractionDigits(t[2], n - 1, Append(ds, t[1]))

RECURSIVE IncrementDigits(_, _)
\* The decimal fraction 0.ds plus one unit of its last digit k:
\* <<carry, ds2>>.
IncrementDigits(ds, k) ==
    IF k = 0 THEN <<1, ds>>
    ELSE IF ds[k] < 9 THEN <<0, [ds EXCEPT ![k] = @ + 1]>>
    ELSE IncrementDigits([ds EXCEPT ![k] = 0], k - 1)

\* The magnitude rounded to n decimal fraction digits, to nearest, ties to
\* even: <<ip, ds>>.
RoundDecimal(mag, n) ==
    LET g == FractionDigits(<<mag[2], mag[3], mag[4], mag[5]>>, n, << >>)
        ds == g[1]
        rest == g[2]
        half == <<LimbBase \div 2, 0, 0, 0>>
        odd == IF n = 0 THEN mag[1] % 2 = 1 ELSE ds[n] % 2 = 1
        up == \/ rest[1] > half[1]
              \/ rest[1] = half[1] /\ (rest # half \/ odd)
        inc == IncrementDigits(ds, n)
    IN  IF up THEN <<mag[1] + inc[1], inc[2]>> ELSE <<mag[1], ds>>

RECURSIVE ShortestDecimal(_, _)
\* The decimal of fewest fraction digits, n or more, that names the double
\* of magnitude mag: <<ip, ds>>.
ShortestDecimal(mag, n) ==
    LET d == RoundDecimal(mag, n)
    IN  IF Dec(FALSE, d[1], d[2]).mag = mag THEN d
        ELSE ShortestDecimal(mag, n + 1)

RECURSIVE NatToChars(_)
\* The decimal digits of a natural number.
NatToChars(n) ==
    IF n < 10 THEN <<Digits[n + 1]>>
    ELSE NatToChars(n \div 10) \o <<Digits[(n % 10) + 1]>>

\* Number::toString of a finite number in [10^-6, 10^21), as a template
\* literal applies it: the shortest decimal that reads back as the number.
NumberToString(x) ==
    LET Chars(d) ==
            (IF x.neg THEN <<"-">> ELSE << >>)
            \o NatToChars(d[1])
            \o (IF d[2] = << >> THEN << >>
                ELSE <<".">> \o [k \in DOMAIN d[2] |-> Digits[d[2][k] + 1]])
    IN  Chars(ShortestDecimal(x.mag, 0))

RECURSIVE DigitsOf(_, _)
\* The e low decimal digits of n, most significant first.
DigitsOf(n, e) ==
    IF e = 0 THEN << >> ELSE Append(DigitsOf(n \div 10, e - 1), n % 10)

\* The number that the decimal literal m / 10^e denotes.
Num(m, e) ==
    LET a == IF m < 0 THEN 0 - m ELSE m
    IN  Dec(m < 0, a \div (10^e), DigitsOf(a % (10^e), e))

----------------------------------------------------------------------------
(* parseFloat on a string (ECMA-262 19.2.4): skip leading white space, then *)
(* read the longest prefix that is a StrDecimalLiteral; NaN if there is    *)
(* none.  The texts of this model contain no exponent marker, so the       *)
(* ExponentPart of the literal is never reached and is not modelled.       *)

IsWhiteSpace(c) == c \in {" ", "\t", "\n"}

InfinityChars == <<"I", "n", "f", "i", "n", "i", "t", "y">>

RECURSIVE SkipWhiteSpace(_, _)
\* Index of the first character of s at or after i that is not white space.
SkipWhiteSpace(s, i) ==
    IF i <= Len(s) /\ IsWhiteSpace(s[i]) THEN SkipWhiteSpace(s, i + 1) ELSE i

RECURSIVE DigitRunLen(_, _)
\* Length of the longest run of digits of s starting at index i.
DigitRunLen(s, i) ==
    IF i <= Len(s) /\ IsDigit(s[i]) THEN 1 + DigitRunLen(s, i + 1) ELSE 0

RECURSIVE DigitsValue(_, _, _)
\* The decimal value of the n digits of s that start at index i.
DigitsValue(s, i, n) ==
    IF n = 0 THEN 0
    ELSE 10 * DigitsValue(s, i, n - 1) + DigitVal(s[i + n - 1])

StartsWith(s, i, t) ==
    /\ i + Len(t) - 1 <= Len(s)
    /\ \A k \in 1..Len(t) : s[i + k - 1] = t[k]

parseFloat(s) ==
    LET i0 == SkipWhiteSpace(s, 1)
        hasSign == i0 <= Len(s) /\ s[i0] \in {"+", "-"}
        neg == hasSign /\ s[i0] = "-"
        i1 == IF hasSign THEN i0 + 1 ELSE i0
        ni == DigitRunLen(s, i1)
        i2 == i1 + ni
        hasDot == i2 <= Len(s) /\ s[i2] = "."
        nf == IF hasDot THEN DigitRunLen(s, i2 + 1) ELSE 0
    IN  IF StartsWith(s, i1, InfinityChars)
        THEN (IF neg THEN NegInfinity ELSE PosInfinity)
        ELSE IF ni + nf = 0 THEN NaN
        ELSE Dec(neg, DigitsValue(s, i1, ni),
                 [k \in 1..nf |-> DigitVal(s[i2 + k])])

\* ToString of the argument, as parseFloat applies it to a non-string.
ToStringOfValue(v) ==
    IF v.type = "string" THEN v.chars
    ELSE IF v.type = "null" THEN <<"n", "u", "l", "l">>
    ELSE <<"u", "n", "d", "e", "f", "i", "n", "e", "d">>

\* parseNumber that returns what parseFloat gives, finite or not.
parseNumberNoFiniteCheck(v) ==
    IF v = Str(<<>>) \/ v = JSNull \/ v = JSUndefined THEN Absent
    ELSE parseFloat(ToStringOfValue(v))

parseNumber(v) ==
    IF v = Str(<<>>) \/ v = JSNull \/ v = JSUndefined THEN Absent
    ELSE LET Checked(n) == IF IsFinite(n) THEN n ELSE Absent
         IN  Checked(parseFloat(ToStringOfValue(v)))

----------------------------------------------------------------------------
(* Rows: the cabinet specs of the form.  Every field but id holds the text *)
(* of its input.                                                           *)

Empty == Str(<<>>)

createEmptyRow(id) ==
    [id |-> id, label |-> Empty, cabinetHeight |-> Empty, kickHeight |-> Empty,
     boxHeight |-> Empty, boxWidth |-> Empty, boxDepth |-> Empty,
     braceHeight |-> Empty, quantity |-> Str(<<"1">>)]

\* The allowances the panel formulas subtract, in inches.
ThreeQuarters == Num(75, 2)
OneAndHalf == Num(15, 1)

\* getEffectiveBoxHeight that lets an entered box height win over the
\* derived one.
getEffectiveBoxHeightOverrideFirst(r) ==
    LET Resolved(cabinetHeight, kickHeight, boxHeightInput) ==
            IF boxHeightInput # Absent THEN boxHeightInput
            ELSE IF cabinetHeight # Absent /\ kickHeight # Absent
            THEN Sub(cabinetHeight, kickHeight)
            ELSE boxHeightInput
    IN  Resolved(parseNumber(r.cabinetHeight), parseNumber(r.kickHeight),
                 parseNumber(r.boxHeight))

getEffectiveBoxHeight(r) ==
    LET Resolved(cabinetHeight, kickHeight, boxHeightInput) ==
            IF cabinetHeight # Absent /\ kickHeight # Absent
            THEN Sub(cabinetHeight, kickHeight)
            ELSE boxHeightInput
    IN  Resolved(parseNumber(r.cabinetHeight), parseNumber(r.kickHeight),
                 parseNumber(r.boxHeight))

Panel(label, width, height, count) ==
    [label |-> label, width |-> width, height |-> height, count |-> count]

\* The pushes with the Back as tall as the box.
PushedPanelsBackFullHeight(bh, bw, bd, brh, q) ==
    << Panel("Wall", bd, bh, Times(2, q)),
       Panel("Floor", Sub(bw, ThreeQuarters), bd, Times(1, q)),
       Panel("Back", Sub(bw, ThreeQuarters), bh, Times(1, q)),
       Panel("Brace", Sub(bw, OneAndHalf), brh, Times(3, q)) >>

\* The four panels pushed for one row, in push order.
PushedPanels(bh, bw, bd, brh, q) ==
    << Panel("Wall", bd, bh, Times(2, q)),
       Panel("Floor", Sub(bw, ThreeQuarters), bd, Times(1, q)),
       Panel("Back", Sub(bw, ThreeQuarters), Sub(bh, OneAndHalf), Times(1, q)),
       Panel("Brace", Sub(bw, OneAndHalf), brh, Times(3, q)) >>

\* The filter with >= for >.
KeepPanelNotNegative(p) ==
    LessEq(Zero, p.width) /\ LessEq(Zero, p.height) /\ LessEq(Zero, p.count)

\* The filter with the test of the height left out.
KeepPanelNoHeight(p) == Positive(p.width) /\ Positive(p.count)

\* The predicate of the final panels.filter(...).
KeepPanel(p) == Positive(p.width) /\ Positive(p.height) /\ Positive(p.count)

\* The guard with the tests of the brace height and of the box width left
\* out: null then enters the arithmetic as 0.
PanelsFromShortGuard(bh, r) ==
    LET Pushed(boxWidth, boxDepth, braceHeight, quantity) ==
            IF \/ bh = Absent
               \/ boxDepth = Absent
               \/ quantity = Absent
               \/ LessEq(quantity, Zero)
            THEN << >>
            ELSE SelectSeq(PushedPanels(bh, boxWidth, boxDepth, braceHeight,
                                        quantity),
                           KeepPanel)
    IN  Pushed(parseNumber(r.boxWidth), parseNumber(r.boxDepth),
               parseNumber(r.braceHeight), parseNumber(r.quantity))

\* The part of computePanelsForRow after the box height is known.
PanelsFrom(bh, r) ==
    LET Pushed(boxWidth, boxDepth, braceHeight, quantity) ==
            IF \/ bh = Absent
               \/ boxWidth = Absent
               \/ boxDepth = Absent
               \/ braceHeight = Absent
               \/ quantity = Absent
               \/ LessEq(quantity, Zero)
            THEN << >>
            ELSE SelectSeq(PushedPanels(bh, boxWidth, boxDepth, braceHeight,
                                        quantity),
                           KeepPanel)
    IN  Pushed(parseNumber(r.boxWidth), parseNumber(r.boxDepth),
               parseNumber(r.braceHeight), parseNumber(r.quantity))

computePanelsForRow(r) == PanelsFrom(getEffectiveBoxHeight(r), r)

\* The box height as the second variant of computePanelsForRow derives it
\* inline.
InlineBoxHeight(r) ==
    LET Resolved(cabinetHeight, kickHeight, boxHeightInput) ==
            IF cabinetHeight # Absent /\ kickHeight # Absent
            THEN Sub(cabinetHeight, kickHeight)
            ELSE boxHeightInput
    IN  Resolved(parseNumber(r.cabinetHeight), parseNumber(r.kickHeight),
                 parseNumber(r.boxHeight))

\* The second variant of computePanelsForRow.
computePanelsForRowSecond(r) == PanelsFrom(InlineBoxHeight(r), r)

----------------------------------------------------------------------------
(* aggregatePanels.  The Map is the sequence of its entries in insertion   *)
(* order; an entry is the key and the group object stored under it.        *)

\* The characters of a panel label.
LabelChars(l) ==
    CASE l = "Wall" -> <<"W", "a", "l", "l">>
      [] l = "Floor" -> <<"F", "l", "o", "o", "r">>
      [] l = "Back" -> <<"B", "a", "c", "k">>
      [] l = "Brace" -> <<"B", "r", "a", "c", "e">>

\* UTF-16 code unit of the characters that occur in the labels.
CharCode(c) ==
    CASE c = "B" -> 66 [] c = "F" -> 70 [] c = "W" -> 87
      [] c = "a" -> 97 [] c = "c" -> 99 [] c = "e" -> 101
      [] c = "k" -> 107 [] c = "l" -> 108 [] c = "o" -> 111
      [] c = "r" -> 114

RECURSIVE StrLessFrom(_, _, _)
StrLessFrom(s, t, i) ==
    IF i > Len(t) THEN FALSE
    ELSE IF i > Len(s) THEN TRUE
    ELSE IF CharCode(s[i]) # CharCode(t[i]) THEN CharCode(s[i]) < CharCode(t[i])
    ELSE StrLessFrom(s, t, i + 1)

\* s < t on strings: by code units, a proper prefix first.
StrLess(s, t) == StrLessFrom(s, t, 1)

\* `${label}|${width}|${height}` with the numbers cut to whole inches.
PanelKeyWholeInches(p) ==
    LabelChars(p.label) \o <<"|">> \o NatToChars(p.width.mag[1])
        \o <<"|">> \o NatToChars(p.height.mag[1])

\* `${label}|${width}|${height}`
PanelKey(p) ==
    LabelChars(p.label) \o <<"|">> \o NumberToString(p.width)
        \o <<"|">> \o NumberToString(p.height)

RECURSIVE PanelsOfRows(_, _)
\* The panels in the order the nested forEach visits them: rows i..Len(rs).
PanelsOfRows(rs, i) ==
    IF i > Len(rs) THEN << >>
    ELSE computePanelsForRow(rs[i]) \o PanelsOfRows(rs, i + 1)

\* The body of panels.forEach with `existing.count = count` for `+=`.
MapAddOverwrite(map, panel) ==
    LET Has(key) == \E j \in DOMAIN map : map[j].key = key
        Get(key) == CHOOSE j \in DOMAIN map : map[j].key = key
        Set(key) ==
            IF ~Has(key)
            THEN Append(map, [key |-> key,
                              group |-> Panel(panel.label, panel.width, panel.height,
                                              Add(Zero, panel.count))])
            ELSE [map EXCEPT ![Get(key)].group.count = panel.count]
    IN  Set(PanelKey(panel))

\* The body of panels.forEach: map.get(key) or a new group of count 0, the
\* count added, map.set(key, existing).
MapAdd(map, panel) ==
    LET Has(key) == \E j \in DOMAIN map : map[j].key = key
        Get(key) == CHOOSE j \in DOMAIN map : map[j].key = key
        Set(key) ==
            IF ~Has(key)
            THEN Append(map, [key |-> key,
                              group |-> Panel(panel.label, panel.width, panel.height,
                                              Add(Zero, panel.count))])
            ELSE [map EXCEPT ![Get(key)].group.count = Add(@, panel.count)]
    IN  Set(PanelKey(panel))

RECURSIVE MapAddAll(_, _, _)
MapAddAll(map, ps, i) ==
    IF i > Len(ps) THEN map
    ELSE MapAddAll(MapAdd(map, ps[i]), ps, i + 1)

\* Array.from(map.values())
MapValues(map) == [j \in DOMAIN map |-> map[j].group]

\* The comparator with width and height swapped.
ComparePanelsHeightFirst(a, b) ==
    IF StrLess(LabelChars(a.label), LabelChars(b.label)) THEN Num(-1, 0)
    ELSE IF StrLess(LabelChars(b.label), LabelChars(a.label)) THEN Num(1, 0)
    ELSE IF a.height # b.height THEN Sub(a.height, b.height)
    ELSE Sub(a.width, b.width)

\* The comparator handed to list.sort.
ComparePanels(a, b) ==
    IF StrLess(LabelChars(a.label), LabelChars(b.label)) THEN Num(-1, 0)
    ELSE IF StrLess(LabelChars(b.label), LabelChars(a.label)) THEN Num(1, 0)
    ELSE IF a.width # b.width THEN Sub(a.width, b.width)
    ELSE Sub(a.height, b.height)

\* x put into the sorted sequence s behind every element that does not
\* compare greater than x.
SortInsert(s, x) ==
    LET First(after) ==
            IF after = {} THEN Len(s) + 1
            ELSE CHOOSE j \in after : \A j2 \in after : j <= j2
        InsertAt(k) == SubSeq(s, 1, k - 1) \o <<x>> \o SubSeq(s, k, Len(s))
    IN  InsertAt(First({j \in DOMAIN s : Positive(ComparePanels(s[j], x))}))

RECURSIVE SortFrom(_, _, _)
SortFrom(sorted, list, i) ==
    IF i > Len(list) THEN sorted
    ELSE SortFrom(SortInsert(sorted, list[i]), list, i + 1)

\* list.sort(compare): Array.prototype.sort is stable, and this comparator
\* is a consistent total preorder, so the result is the stable sorted
\* arrangement.
SortList(list) == SortFrom(<< >>, list, 1)

aggregatePanels(rs) ==
    SortList(MapValues(MapAddAll(<< >>, PanelsOfRows(rs, 1), 1)))

----------------------------------------------------------------------------
(* Inputs *)

\* Longest text built from Alphabet that parseNumber is called with.
MaxLen == 3
\* Longest row list that aggregatePanels is called with.
MaxRows == 3

\* A digit, a second digit, the decimal point, a sign, white space, a letter.
Alphabet == {"1", "5", ".", "-", " ", "a"}

TextsUpTo(n) == UNION {[1..k -> Alphabet] : k \in 0..n}

\* Values handed to parseNumber: null, undefined, every short text over the
\* alphabet, and the texts that spell an infinity.
ParseInputs ==
    {JSNull, JSUndefined}
        \cup {Str(s) : s \in TextsUpTo(MaxLen)}
        \cup {Str(InfinityChars), Str(<<"-">> \o InfinityChars),
              Str(<<"+">> \o InfinityChars), Str(<<" ">> \o InfinityChars),
              Str(InfinityChars \o <<"1">>)}

\* Field texts.  0.1, 0.2 and 0.3 are no doubles: each parses to the double
\* nearest to it.  The other numeric texts are multiples of 0.25.
Txt0 == Str(<<"0">>)
Txt0_1 == Str(<<"0", ".", "1">>)
Txt0_2 == Str(<<"0", ".", "2">>)
Txt0_3 == Str(<<"0", ".", "3">>)
Txt0_5 == Str(<<"0", ".", "5">>)
Txt0_75 == Str(<<"0", ".", "7", "5">>)
Txt1 == Str(<<"1">>)
Txt1_5 == Str(<<"1", ".", "5">>)
Txt3 == Str(<<"3">>)
Txt4 == Str(<<"4">>)
Txt4_5 == Str(<<"4", ".", "5">>)
Txt6 == Str(<<"6">>)
Txt12 == Str(<<"1", "2">>)
Txt24 == Str(<<"2", "4">>)
Txt30 == Str(<<"3", "0">>)
Txt34_5 == Str(<<"3", "4", ".", "5">>)
TxtMinus1 == Str(<<"-", "1">>)
TxtBlank == Str(<<" ">>)
TxtLetters == Str(<<"a", "b", "c">>)
Txt12abc == Str(<<"1", "2", "a", "b", "c">>)

Row(ch, kh, bh, bw, bd, brh, q) ==
    [id |-> 1, label |-> Empty, cabinetHeight |-> ch, kickHeight |-> kh,
     boxHeight |-> bh, boxWidth |-> bw, boxDepth |-> bd, braceHeight |-> brh,
     quantity |-> q]

\* The two rows of handleLoadExample, each with the id 1 of a single row.
ExampleBase ==
    [Row(Txt34_5, Txt4_5, Empty, Txt30, Txt24, Txt3, Txt4)
        EXCEPT !.label = Str(<<"B", "a", "s", "e", " ", "3", "0", "\"">>)]
ExampleUpper ==
    [Row(Txt30, Txt0, Empty, Txt30, Txt12, Txt3, Txt6)
        EXCEPT !.label = Str(<<"U", "p", "p", "e", "r", " ", "3", "0", "\"">>)]

\* Rows handed to computePanelsForRow: the example rows and every
\* combination of these field values.
RowInputs ==
    {ExampleBase, ExampleUpper} \cup
    {Row(ch, kh, bh, bw, bd, brh, q) :
        ch \in {Empty, Txt34_5, Txt30, TxtLetters},
        kh \in {Empty, Txt4_5, Txt34_5},
        bh \in {Empty, Txt1, Txt1_5, Txt30},
        bw \in {Empty, Txt30, Txt0_75, Txt1_5, Txt12abc},
        bd \in {TxtBlank, Txt24, Txt0},
        brh \in {Empty, Txt3, TxtMinus1},
        q \in {JSNull, Txt4, Txt0, TxtMinus1, Txt0_5, Txt0_1}}

\* Rows handed to aggregatePanels: the two example rows; three cabinets as
\* wide and as deep as the first example, in quantities 0.1, 0.2 and 0.3,
\* with boxes 1 and 1.5 inches tall, so that their Backs are not positive;
\* a row that passes the guard and loses all four panels to the filter; a
\* row with no box width.
AggRowInputs ==
    {ExampleBase,
     ExampleUpper,
     Row(Empty, Empty, Txt1, Txt30, Txt24, Txt3, Txt0_1),
     Row(Empty, Empty, Txt1_5, Txt30, Txt24, Txt3, Txt0_2),
     Row(Empty, Empty, Txt1_5, Txt30, Txt24, Txt3, Txt0_3),
     Row(Txt30, Txt34_5, Empty, Txt0_75, Txt12, Txt3, Txt4),
     Row(Txt30, Txt0, Empty, Empty, Txt12, Txt3, Txt4)}

\* Row lists: the i-th row carries id i, as rows of the form are distinct.
RowLists ==
    UNION {{[i \in 1..n |-> [f[i] EXCEPT !.id = i]] : f \in [1..n -> AggRowInputs]} :
           n \in 0..MaxRows}

----------------------------------------------------------------------------
(* The calls.  Each specification hands one function its input and lets it *)
(* return; the variables of the other functions stay idle.                 *)

NotReturned == [kind |-> "none", neg |-> FALSE, mag |-> ZeroMag]

IdleParse == value = JSUndefined /\ parsed = NotReturned
IdleRow == row = createEmptyRow(1) /\ boxHeightEffective = NotReturned /\ panels = << >>
IdleAgg == rows = << >> /\ panelSummary = << >>

\* No file has been saved.
NoDownload == [name |-> "", text |-> << >>]

\* What the handlers of a render hold: the rows and the nextId of that render.
Closure(rs, id) == [rows |-> rs, nextId |-> id]

IdleApp ==
    /\ nextId = 2 /\ rowsRef = 0 /\ memoDeps = 0 /\ download = NoDownload
    /\ closure = Closure(<< >>, 2)

InitParse ==
    /\ value \in ParseInputs
    /\ parsed = NotReturned
    /\ IdleRow /\ IdleAgg /\ IdleApp
    /\ pc = "call"

CallParseNumber ==
    /\ pc = "call"
    /\ parsed' = parseNumber(value)
    /\ pc' = "done"
    /\ UNCHANGED <<value, row, boxHeightEffective, panels, rows, panelSummary, appVars>>

NextParse == CallParseNumber

SpecParse == InitParse /\ [][NextParse]_vars

InitRow ==
    /\ row \in RowInputs
    /\ boxHeightEffective = NotReturned
    /\ panels = << >>
    /\ IdleParse /\ IdleAgg /\ IdleApp
    /\ pc = "call"

CallComputePanelsForRow ==
    /\ pc = "call"
    /\ boxHeightEffective' = getEffectiveBoxHeight(row)
    /\ panels' = computePanelsForRow(row)
    /\ pc' = "done"
    /\ UNCHANGED <<value, parsed, row, rows, panelSummary, appVars>>

CallComputePanelsForRowSecond ==
    /\ pc = "call"
    /\ boxHeightEffective' = InlineBoxHeight(row)
    /\ panels' = computePanelsForRowSecond(row)
    /\ pc' = "done"
    /\ UNCHANGED <<value, parsed, row, rows, panelSummary, appVars>>

NextRow == CallComputePanelsForRow \/ CallComputePanelsForRowSecond

SpecRow == InitRow /\ [][NextRow]_vars

Init ==
    /\ rows \in RowLists
    /\ panelSummary = << >>
    /\ IdleParse /\ IdleRow /\ IdleApp
    /\ pc = "call"

CallAggregatePanels ==
    /\ pc = "call"
    /\ panelSummary' = aggregatePanels(rows)
    /\ pc' = "done"
    /\ UNCHANGED <<value, parsed, row, boxHeightEffective, panels, rows, appVars>>

Next == CallAggregatePanels

Spec == Init /\ [][Next]_vars

----------------------------------------------------------------------------
(* The App component.  A handler's action is the handler and the render    *)
(* that its state updates bring about: the render evaluates useMemo, which *)
(* recomputes the summary when the rows array is not the array it last     *)
(* computed for.  Arrays are told apart by rowsRef: every array a handler  *)
(* builds gets a number no array had before.                               *)

\* Most calls of setRows in one run.
MaxSets == 2

\* The fields that the form edits through handleChange, and texts typed
\* into them.
EditFields ==
    {"label", "cabinetHeight", "kickHeight", "boxHeight", "boxWidth", "boxDepth",
     "braceHeight", "quantity"}
EditValues == {Empty, Txt12}

\* prev.map((row) => row.id === id ? { ...row, [field]: value } : row)
handleChange(prev, id, field, v) ==
    [i \in DOMAIN prev |->
        IF prev[i].id = id THEN [prev[i] EXCEPT ![field] = v] ELSE prev[i]]

\* [...prev, createEmptyRow(nextId)]
handleAddRow(prev, id) == Append(prev, createEmptyRow(id))

\* prev.filter((row) => row.id !== id)
handleRemoveRow(prev, id) == SelectSeq(prev, LAMBDA r : r.id # id)

\* [...prev, { ...row, id: nextId }]
handleDuplicateRow(prev, r, id) == Append(prev, [r EXCEPT !.id = id])

\* [createEmptyRow(1)]
handleReset == <<createEmptyRow(1)>>

\* The exampleRows of handleLoadExample.
handleLoadExample == <<ExampleBase, [ExampleUpper EXCEPT !.id = 2]>>

\* useMemo with an empty dependency list: the first value is kept.
useMemoNoDeps(deps, cachedDeps, cached, rs) == cached

\* useMemo(() => aggregatePanels(rows), [rows]): the cached value unless
\* the dependency is another array than at the last computation.
useMemo(deps, cachedDeps, cached, rs) ==
    IF deps # cachedDeps THEN aggregatePanels(rs) ELSE cached

\* setRows with a new array.
SetRows(newRows) ==
    /\ rowsRef < MaxSets
    /\ rows' = newRows
    /\ rowsRef' = rowsRef + 1

\* The render that follows the update of the state: useMemo is called with
\* the rows that the update has set, and the handlers are made anew with
\* the rows and the nextId of this render.
Render ==
    /\ panelSummary' = useMemo(rowsRef', memoDeps, panelSummary, rows')
    /\ memoDeps' = rowsRef'
    /\ closure' = Closure(rows', nextId')
    /\ UNCHANGED <<value, parsed, row, boxHeightEffective, panels, download>>

\* The calls of the handlers.  A handler is a closure of the last render:
\* the row ids and the row that the form hands it, and the nextId that it
\* reads, are the ones of that render; prev and the id of setNextId are the
\* state at the time of the update.
CallChange ==
    /\ \E i \in DOMAIN closure.rows, field \in EditFields, v \in EditValues :
           SetRows(handleChange(rows, closure.rows[i].id, field, v))
    /\ UNCHANGED nextId
    /\ pc' = "handleChange"

CallAddRow ==
    /\ SetRows(handleAddRow(rows, closure.nextId))
    /\ nextId' = nextId + 1
    /\ pc' = "handleAddRow"

\* The Remove button is disabled while there is a single row.
CallRemoveRow ==
    /\ Len(closure.rows) # 1
    /\ \E i \in DOMAIN closure.rows :
           SetRows(handleRemoveRow(rows, closure.rows[i].id))
    /\ UNCHANGED nextId
    /\ pc' = "handleRemoveRow"

CallDuplicateRow ==
    /\ \E i \in DOMAIN closure.rows :
           SetRows(handleDuplicateRow(rows, closure.rows[i], closure.nextId))
    /\ nextId' = nextId + 1
    /\ pc' = "handleDuplicateRow"

CallReset ==
    /\ SetRows(handleReset)
    /\ nextId' = 2
    /\ pc' = "handleReset"

CallLoadExample ==
    /\ SetRows(handleLoadExample)
    /\ nextId' = 3
    /\ pc' = "handleLoadExample"

\* A click: the handler is called once and React renders before the next
\* event.
HandleChange == CallChange /\ Render

HandleAddRow == CallAddRow /\ Render

HandleRemoveRow == CallRemoveRow /\ Render

HandleDuplicateRow == CallDuplicateRow /\ Render

HandleReset == CallReset /\ Render

HandleLoadExample == CallLoadExample /\ Render

\* "Label,Width,Height,Count"
CsvHeader ==
    << "L", "a", "b", "e", "l", ",", "W", "i", "d", "t", "h", ",", "H",
       "e", "i", "g", "h", "t", ",", "C", "o", "u", "n", "t" >>

\* [p.label, p.width, p.height, p.count].join(",")
CsvLine(p) ==
    LabelChars(p.label) \o <<",">> \o NumberToString(p.width) \o <<",">>
        \o NumberToString(p.height) \o <<",">> \o NumberToString(p.count)

RECURSIVE JoinLines(_, _)
\* lines.join("\n") from line i on.
JoinLines(lines, i) ==
    IF i > Len(lines) THEN << >>
    ELSE (IF i > 1 THEN <<"\n">> ELSE << >>) \o lines[i] \o JoinLines(lines, i + 1)

\* The csv text of handleExportCSV.
CsvText(summary) ==
    JoinLines(<<CsvHeader>> \o [i \in DOMAIN summary |-> CsvLine(summary[i])], 1)

\* handleExportCSV without its first line: the file that is saved whatever
\* the summary holds.
handleExportCSVNoGuard(summary, saved) ==
    [name |-> "cabinet-panels.csv", text |-> CsvText(summary)]

\* handleExportCSV: the file saved after the call, given the file saved
\* before it.
handleExportCSV(summary, saved) ==
    IF Len(summary) = 0 THEN saved
    ELSE [name |-> "cabinet-panels.csv", text |-> CsvText(summary)]

\* The handler is called whether or not the Download button, which is
\* disabled while the summary is empty, would let a click through.
HandleExportCSV ==
    /\ download' = handleExportCSV(panelSummary, download)
    /\ pc' = "handleExportCSV"
    /\ UNCHANGED <<value, parsed, row, boxHeightEffective, panels, rows,
                   panelSummary, nextId, rowsRef, memoDeps, closure>>

\* The App after its first render.
InitApp ==
    /\ rows = <<createEmptyRow(1)>>
    /\ nextId = 2
    /\ rowsRef = 0
    /\ memoDeps = 0
    /\ panelSummary = aggregatePanels(<<createEmptyRow(1)>>)
    /\ download = NoDownload
    /\ closure = Closure(<<createEmptyRow(1)>>, 2)
    /\ pc = "mounted"
    /\ IdleParse /\ IdleRow

NextApp ==
    \/ HandleChange
    \/ HandleAddRow
    \/ HandleRemoveRow
    \/ HandleDuplicateRow
    \/ HandleReset
    \/ HandleLoadExample
    \/ HandleExportCSV

SpecApp == InitApp /\ [][NextApp]_vars

----------------------------------------------------------------------------
(* The App with updates that React batches: handlers called one after the  *)
(* other before the component renders again (calls within one event or one *)
(* tick), each of them a closure of the last render.  The export, which    *)
(* sets no state, is left out.                                             *)

\* No render between this call and the next.
NoRender ==
    UNCHANGED <<value, parsed, row, boxHeightEffective, panels, panelSummary,
                memoDeps, download, closure>>

BatchedChange == CallChange /\ NoRender

BatchedAddRow == CallAddRow /\ NoRender

BatchedRemoveRow == CallRemoveRow /\ NoRender

BatchedDuplicateRow == CallDuplicateRow /\ NoRender

BatchedReset == CallReset /\ NoRender

BatchedLoadExample == CallLoadExample /\ NoRender

\* The render of the batch: rows has been set since the last render.
Rerender ==
    /\ rowsRef # memoDeps
    /\ UNCHANGED <<rows, rowsRef, nextId>>
    /\ pc' = "render"
    /\ Render

NextBatched ==
    \/ BatchedChange
    \/ BatchedAddRow
    \/ BatchedRemoveRow
    \/ BatchedDuplicateRow
    \/ BatchedReset
    \/ BatchedLoadExample
    \/ Rerender

SpecBatched == InitApp /\ [][NextBatched]_vars

----------------------------------------------------------------------------
(* Properties *)

\* The fields of the row, parsed, as the properties below read them.
BoxWidthOf(r) == parseNumber(r.boxWidth)
BoxDepthOf(r) == parseNumber(r.boxDepth)
BraceHeightOf(r) == parseNumber(r.braceHeight)
QuantityOf(r) == parseNumber(r.quantity)

\* Some value the expansion needs is absent, or the quantity is not positive.
GuardFails(bh, r) ==
    \/ bh = Absent
    \/ BoxWidthOf(r) = Absent
    \/ BoxDepthOf(r) = Absent
    \/ BraceHeightOf(r) = Absent
    \/ QuantityOf(r) = Absent
    \/ QuantityOf(r).neg
    \/ QuantityOf(r).mag = ZeroMag

PanelSet(ps) == {ps[i] : i \in DOMAIN ps}

\* C1: when the effective box height, the box width, the box depth, the
\* brace height or the quantity is absent, or the quantity is not positive,
\* computePanelsForRow (either variant) returns the empty array.
C1_GuardReturnsEmpty ==
    (pc = "done" /\ GuardFails(boxHeightEffective, row)) => panels = << >>

\* C1 happens: a row whose only defect is a quantity of 0 has been expanded
\* to nothing, and so has a row whose only defect is a blank brace height.
C1_Witness ==
    /\ pc = "done"
    /\ panels = << >>
    /\ boxHeightEffective # Absent
    /\ BoxWidthOf(row) # Absent /\ BoxDepthOf(row) # Absent
    /\ \/ (BraceHeightOf(row) # Absent /\ QuantityOf(row) = Zero)
       \/ (BraceHeightOf(row) = Absent /\ QuantityOf(row) = Num(4, 0))

\* C2: for a row that passes the guard every returned panel has the
\* dimensions and the count of the formula table: Wall boxDepth x boxHeight,
\* 2q; Floor (boxWidth - 0.75) x boxDepth, q; Back (boxWidth - 0.75) x
\* (boxHeight - 1.5), q; Brace (boxWidth - 1.5) x braceHeight, 3q.  The
\* example row gives Wall 24x30 c8, Floor 29.25x24 c4, Back 29.25x28.5 c4,
\* Brace 28.5x3 c12.
C2_PanelFormulas ==
    (pc = "done" /\ ~GuardFails(boxHeightEffective, row)) =>
        LET bh == boxHeightEffective
            bw == BoxWidthOf(row)
            bd == BoxDepthOf(row)
            brh == BraceHeightOf(row)
            q == QuantityOf(row)
        IN  /\ \A p \in PanelSet(panels) :
                \/ p = Panel("Wall", bd, bh, Add(q, q))
                \/ p = Panel("Floor", Sub(bw, Num(75, 2)), bd, q)
                \/ p = Panel("Back", Sub(bw, Num(75, 2)), Sub(bh, Num(15, 1)), q)
                \/ p = Panel("Brace", Sub(bw, Num(15, 1)), brh, Add(q, Add(q, q)))
            /\ row = ExampleBase =>
                panels = << Panel("Wall", Num(24, 0), Num(30, 0), Num(8, 0)),
                            Panel("Floor", Num(2925, 2), Num(24, 0), Num(4, 0)),
                            Panel("Back", Num(2925, 2), Num(285, 1), Num(4, 0)),
                            Panel("Brace", Num(285, 1), Num(3, 0), Num(12, 0)) >>

\* C2 happens: the example row has been expanded to its four panels.
C2_Witness ==
    /\ pc = "done"
    /\ row = ExampleBase
    /\ boxHeightEffective = Num(30, 0)
    /\ Len(panels) = 4

\* C3: the effective box height is cabinetHeight - kickHeight whenever both
\* parse to numbers, whatever the box-height field holds and also when the
\* difference is zero or negative; when either is absent it is the parsed
\* box-height field, absent if that is blank.
C3_BoxHeight ==
    pc = "done" =>
        LET ch == parseNumber(row.cabinetHeight)
            kh == parseNumber(row.kickHeight)
        IN  /\ (ch # Absent /\ kh # Absent) =>
                /\ IsFinite(boxHeightEffective)
                /\ boxHeightEffective = Sub(ch, kh)
                /\ (ch = Num(345, 1) /\ kh = Num(45, 1)) =>
                        boxHeightEffective = Num(30, 0)
            /\ (ch = Absent \/ kh = Absent) =>
                /\ boxHeightEffective = parseNumber(row.boxHeight)
                /\ row.boxHeight = Empty => boxHeightEffective = Absent

\* C3 happens: with a box height entered, the derived height was returned
\* and is not positive.
C3_Witness ==
    /\ pc = "done"
    /\ parseNumber(row.boxHeight) = Num(30, 0)
    /\ parseNumber(row.cabinetHeight) = Num(30, 0)
    /\ parseNumber(row.kickHeight) = Num(345, 1)
    /\ boxHeightEffective = Num(-45, 1)

\* The panels that all rows of a list expand to.
EmittedPanels(rs) == UNION {PanelSet(computePanelsForRow(rs[i])) : i \in DOMAIN rs}

IsPositiveNumber(x) == x.kind = "num" /\ ~x.neg /\ x.mag # ZeroMag

AllPositive(p) ==
    IsPositiveNumber(p.width) /\ IsPositiveNumber(p.height) /\ IsPositiveNumber(p.count)

\* C4: every panel that computePanelsForRow returns has width > 0,
\* height > 0 and count > 0, and so has every group that aggregatePanels
\* returns.
C4_PositivePanels ==
    pc = "done" =>
        /\ \A p \in EmittedPanels(rows) : AllPositive(p)
        /\ \A g \in PanelSet(panelSummary) : AllPositive(g)

\* C4 happens: a row whose box is 1 inch tall, hence whose Back would be
\* -0.5 inch tall, and a row whose box is 1.5 inches tall, hence whose Back
\* would be 0 inches tall, have been aggregated and left groups behind.
C4_Witness ==
    /\ pc = "done"
    /\ \E i \in DOMAIN rows :
        /\ getEffectiveBoxHeight(rows[i]) = Num(1, 0)
        /\ Len(computePanelsForRow(rows[i])) = 3
    /\ \E i \in DOMAIN rows :
        /\ getEffectiveBoxHeight(rows[i]) = Num(15, 1)
        /\ Len(computePanelsForRow(rows[i])) = 3
    /\ panelSummary # << >>

Triple(p) == <<p.label, p.width, p.height>>

\* C5: aggregatePanels returns exactly one group for each (label, width,
\* height) that occurs among the panels of the rows, and none for any other;
\* widths and heights are compared as computed, without rounding.
C5_OneGroupPerTriple ==
    pc = "done" =>
        /\ {Triple(g) : g \in PanelSet(panelSummary)}
                = {Triple(p) : p \in EmittedPanels(rows)}
        /\ \A i, j \in DOMAIN panelSummary :
                Triple(panelSummary[i]) = Triple(panelSummary[j]) => i = j

\* C5 happens: two rows gave Walls 24 x 1 and 24 x 1.5, which are apart by
\* less than an inch, and both groups are in the result.
C5_Witness ==
    /\ pc = "done"
    /\ \E g, h \in PanelSet(panelSummary) :
        /\ Triple(g) = <<"Wall", Num(24, 0), Num(1, 0)>>
        /\ Triple(h) = <<"Wall", Num(24, 0), Num(15, 1)>>

RECURSIVE CountSum(_, _, _, _)
\* sum plus the counts of the panels ps[i..] that have the triple t, added
\* one after the other.
CountSum(ps, t, i, sum) ==
    IF i > Len(ps) THEN sum
    ELSE CountSum(ps, t, i + 1, IF Triple(ps[i]) = t THEN Add(sum, ps[i].count) ELSE sum)

\* A number without a fraction.
IsWhole(x) == x.kind = "num" /\ x.mag[2] = 0 /\ x.mag[3] = 0 /\ x.mag[4] = 0 /\ x.mag[5] = 0

RECURSIVE ExactCountSum(_, _, _, _)
\* mag plus the counts of the panels ps[i..] that have the triple t, as the
\* sum of the real numbers, not rounded.
ExactCountSum(ps, t, i, mag) ==
    IF i > Len(ps) THEN mag
    ELSE ExactCountSum(ps, t, i + 1,
            IF Triple(ps[i]) = t THEN MagAdd(mag, ps[i].count.mag) ELSE mag)

RECURSIVE RowPanels(_, _)
\* The panels of rows i.. of a list, one row after the other.
RowPanels(rs, i) ==
    IF i > Len(rs) THEN << >>
    ELSE computePanelsForRow(rs[i]) \o RowPanels(rs, i + 1)

\* C6: the count of every group is the sum of count over all panels of all
\* rows that have the group's label, width and height: the counts added as
\* numbers one after the other in the order of the rows, which for counts
\* that are whole numbers is the sum without any rounding; the two example
\* rows (quantities 4 and 6) give one Back group 29.25 x 28.5 with count 10.
C6_GroupCountIsSum ==
    pc = "done" =>
        /\ LET ps == RowPanels(rows, 1)
           IN  \A g \in PanelSet(panelSummary) :
                /\ g.count = CountSum(ps, Triple(g), 1, Zero)
                /\ (\A i \in DOMAIN ps : Triple(ps[i]) = Triple(g) => IsWhole(ps[i].count))
                        => g.count = MkNum(FALSE, ExactCountSum(ps, Triple(g), 1, ZeroMag))
        /\ (Len(rows) = 2 /\ [rows[1] EXCEPT !.id = 1] = ExampleBase
                /\ [rows[2] EXCEPT !.id = 1] = ExampleUpper) =>
              \E g \in PanelSet(panelSummary) :
                  g = Panel("Back", Num(2925, 2), Num(285, 1), Num(10, 0))

\* C6 happens: the two example rows have been aggregated and their Backs
\* merged.
C6_Witness ==
    /\ pc = "done"
    /\ Len(rows) = 2
    /\ [rows[1] EXCEPT !.id = 1] = ExampleBase
    /\ [rows[2] EXCEPT !.id = 1] = ExampleUpper
    /\ Len(panelSummary) = 6

\* The labels in lexicographic order.
LabelRank(l) ==
    CASE l = "Back" -> 1 [] l = "Brace" -> 2 [] l = "Floor" -> 3 [] l = "Wall" -> 4

\* C7: the returned groups are in non-decreasing order of (label, width,
\* height): of two adjacent groups the first has the smaller label, or the
\* same label and the smaller width, or the same label and width and a
\* height that is not larger.
C7_Sorted ==
    pc = "done" =>
        \A i \in 1..(Len(panelSummary) - 1) :
            LET g == panelSummary[i]
                h == panelSummary[i + 1]
            IN  \/ LabelRank(g.label) < LabelRank(h.label)
                \/ g.label = h.label /\ Less(g.width, h.width)
                \/ g.label = h.label /\ g.width = h.width
                        /\ LessEq(g.height, h.height)

\* C7 happens: the first row's panels entered the Map behind nothing, yet a
\* later row's group of the same label stands before one of them, by width
\* in one place and by height in another.
C7_Witness ==
    /\ pc = "done"
    /\ Len(rows) = 2
    /\ \E i, j \in DOMAIN panelSummary :
        /\ i < j
        /\ panelSummary[i].label = panelSummary[j].label
        /\ panelSummary[i].width # panelSummary[j].width
        /\ panelSummary[j] \in PanelSet(computePanelsForRow(rows[1]))
        /\ panelSummary[i] \notin PanelSet(computePanelsForRow(rows[1]))
    /\ \E i, j \in DOMAIN panelSummary :
        /\ i < j
        /\ panelSummary[i].label = panelSummary[j].label
        /\ panelSummary[i].width = panelSummary[j].width
        /\ panelSummary[j] \in PanelSet(computePanelsForRow(rows[1]))
        /\ panelSummary[i] \notin PanelSet(computePanelsForRow(rows[1]))

RowPermutations(n) == {f \in [1..n -> 1..n] : \A a, b \in 1..n : f[a] = f[b] => a = b}

Permuted(rs, f) == [i \in DOMAIN rs |-> rs[f[i]]]

\* C8: aggregatePanels returns the same sequence of groups, with the same
\* counts, for every permutation of the row list.
C8_RowOrderUnobservable ==
    pc = "done" =>
        \A f \in RowPermutations(Len(rows)) :
            aggregatePanels(Permuted(rows, f)) = panelSummary

\* The groups without their counts.
Triples(groups) == [i \in DOMAIN groups |-> Triple(groups[i])]

\* What of C8 does hold: the groups and their order are the same for every
\* permutation of the row list; the counts are left aside.
C8_SameGroupsInSameOrder ==
    pc = "done" =>
        \A f \in RowPermutations(Len(rows)) :
            Triples(aggregatePanels(Permuted(rows, f))) = Triples(panelSummary)

\* A row that fails the guard, or whose four computed panels each have a
\* width, height or count that is not positive.
NonContributing(r) ==
    LET ch == parseNumber(r.cabinetHeight)
        kh == parseNumber(r.kickHeight)
        bh == IF ch # Absent /\ kh # Absent THEN Sub(ch, kh)
              ELSE parseNumber(r.boxHeight)
        bw == BoxWidthOf(r)
        bd == BoxDepthOf(r)
        brh == BraceHeightOf(r)
    IN  \/ GuardFails(bh, r)
        \/ /\ (~IsPositiveNumber(bd) \/ ~IsPositiveNumber(bh))
           /\ (LessEq(bw, Num(75, 2)) \/ ~IsPositiveNumber(bd))
           /\ (LessEq(bw, Num(75, 2)) \/ LessEq(bh, Num(15, 1)))
           /\ (LessEq(bw, Num(15, 1)) \/ ~IsPositiveNumber(brh))

Without(rs, i) == SubSeq(rs, 1, i - 1) \o SubSeq(rs, i + 1, Len(rs))

\* C9: a row that contributes nothing does not change the result: with such
\* a row at any position of the list, aggregatePanels returns what it
\* returns for the list without the row.
C9_NonContributingRowIgnored ==
    pc = "done" =>
        \A i \in DOMAIN rows :
            NonContributing(rows[i]) =>
                aggregatePanels(Without(rows, i)) = panelSummary

\* C9 happens: a list of a contributing row and a row that passes the guard
\* but loses all four panels to the filter has been aggregated, and so has a
\* list with a row whose box width is blank.
C9_Witness ==
    /\ pc = "done"
    /\ Len(rows) = 2
    /\ panelSummary # << >>
    /\ \E i \in DOMAIN rows :
        /\ NonContributing(rows[i])
        /\ \/ ~GuardFails(getEffectiveBoxHeight(rows[i]), rows[i])
           \/ (BoxWidthOf(rows[i]) = Absent /\ BoxDepthOf(rows[i]) # Absent)

IsBlankText(v) ==
    v.type = "string" /\ \A i \in DOMAIN v.chars : v.chars[i] = " "

\* C10: parseNumber returns null for "", null and undefined and for every
\* input that parseFloat does not turn into a finite number, such as a text
\* of white space only or "Infinity"; for every input it returns null or a
\* finite number.
C10_ParseAbsent ==
    pc = "done" =>
        /\ value \in {Str(<< >>), JSNull, JSUndefined} => parsed = Absent
        /\ parseFloat(ToStringOfValue(value)).kind \in {"NaN", "Infinity"}
                => parsed = Absent
        /\ IsBlankText(value) => parsed = Absent
        /\ (value.type = "string" /\ StartsWith(value.chars, 1, InfinityChars))
                => parsed = Absent
        /\ parsed = Absent \/ parsed.kind = "num"

\* C10 happens: parseNumber has been called with "Infinity".
C10_Witness ==
    /\ pc = "done"
    /\ value = Str(InfinityChars)
    /\ parsed = Absent

\* A text that is a decimal number from its first character to its last:
\* an optional sign, digits with at most one decimal point among them and a
\* digit on at least one side of it; white space may surround it.
IsDecimalText(v) ==
    /\ v.type = "string"
    /\ LET s == v.chars
           i0 == SkipWhiteSpace(s, 1)
           i1 == IF i0 <= Len(s) /\ s[i0] \in {"+", "-"} THEN i0 + 1 ELSE i0
           ni == DigitRunLen(s, i1)
           i2 == i1 + ni
           hasDot == i2 <= Len(s) /\ s[i2] = "."
           nf == IF hasDot THEN DigitRunLen(s, i2 + 1) ELSE 0
           i3 == IF hasDot THEN i2 + 1 + nf ELSE i2
       IN  ni + nf > 0 /\ SkipWhiteSpace(s, i3) > Len(s)

\* C11: a row whose box width, box depth, brace height or quantity is not
\* a decimal number in its entirety, such as "12abc", contributes no panels:
\* computePanelsForRow (either variant) returns the empty array.
C11_NonNumericIsAbsent ==
    (pc = "done" /\ \E f \in {"boxWidth", "boxDepth", "braceHeight", "quantity"} :
                        ~IsDecimalText(row[f]))
        => panels = << >>

\* The labels of the panels that the formula table gives a positive width
\* and a positive height.
PositiveLabels(bh, r) ==
    LET bw == BoxWidthOf(r)
        bd == BoxDepthOf(r)
        brh == BraceHeightOf(r)
    IN  {l \in {"Wall", "Floor", "Back", "Brace"} :
            CASE l = "Wall" -> Less(Zero, bd) /\ Less(Zero, bh)
              [] l = "Floor" -> Less(Num(75, 2), bw) /\ Less(Zero, bd)
              [] l = "Back" -> Less(Num(75, 2), bw) /\ Less(Num(15, 1), bh)
              [] l = "Brace" -> Less(Num(15, 1), bw) /\ Less(Zero, brh)}

\* C12 as claimed: computePanelsForRow returns a sequence of length exactly
\* 0 or exactly 4.
C12_LengthZeroOrFour ==
    pc = "done" => Len(panels) \in {0, 4}

\* C12 as amended: computePanelsForRow returns no panel when the guard
\* fails and otherwise one panel for each of Wall, Floor, Back and Brace
\* whose width and height are positive: 4 when all are, and never more.
C12_LengthIsPositivePanels ==
    pc = "done" =>
        /\ Len(panels) \in 0..4
        /\ Len(panels) = IF GuardFails(boxHeightEffective, row) THEN 0
                         ELSE Cardinality(PositiveLabels(boxHeightEffective, row))
        /\ (Len(panels) = 4) =>
                [k \in 1..4 |-> panels[k].label] = <<"Wall", "Floor", "Back", "Brace">>

\* C12 happens: a row that passes the guard has been expanded to two
\* panels.
C12_Witness ==
    /\ pc = "done"
    /\ ~GuardFails(boxHeightEffective, row)
    /\ Len(panels) = 2

\* C13: a row that passes the guard with an effective box height h,
\* 0 < h <= 1.5, a positive box depth, a box width above 1.5 and a positive
\* brace height returns its Wall, its Floor and its Brace, in this order,
\* and no Back.
C13_BackDropped ==
    LET h == boxHeightEffective
    IN  (/\ pc = "done"
         /\ ~GuardFails(h, row)
         /\ Less(Zero, h) /\ LessEq(h, Num(15, 1))
         /\ Less(Zero, BoxDepthOf(row))
         /\ Less(Num(15, 1), BoxWidthOf(row))
         /\ Less(Zero, BraceHeightOf(row)))
        => /\ Len(panels) = 3
           /\ [k \in 1..3 |-> panels[k].label] = <<"Wall", "Floor", "Brace">>
           /\ panels[1] = Panel("Wall", BoxDepthOf(row), h, Times(2, QuantityOf(row)))

\* C13 happens: a row whose box is exactly 1.5 inches tall, so that its
\* Back would be 0 inches tall, has been expanded to three panels.
C13_Witness ==
    /\ pc = "done"
    /\ boxHeightEffective = Num(15, 1)
    /\ Len(panels) = 3
    /\ panels[3].label = "Brace"

\* C19: the count of every panel that computePanelsForRow returns is a
\* positive whole number, also for a quantity such as 0.5 or 1.5.
C19_CountsAreWhole ==
    pc = "done" =>
        \A p \in PanelSet(panels) : IsPositiveNumber(p.count) /\ IsWhole(p.count)

\* The printable characters in the order of their code units, from the
\* space, 32, on; "grave" holds the place of the grave accent, 96.
PrintableChars ==
    << " ", "!", "\"", "#", "$", "%", "&", "'", "(", ")", "*", "+", ",",
       "-", ".", "/", "0", "1", "2", "3", "4", "5", "6", "7", "8", "9",
       ":", ";", "<", "=", ">", "?", "@", "A", "B", "C", "D", "E", "F",
       "G", "H", "I", "J", "K", "L", "M", "N", "O", "P", "Q", "R", "S",
       "T", "U", "V", "W", "X", "Y", "Z", "[", "\\", "]", "^", "_", "grave",
       "a", "b", "c", "d", "e", "f", "g", "h", "i", "j", "k", "l", "m",
       "n", "o", "p", "q", "r", "s", "t", "u", "v", "w", "x", "y", "z",
       "{", "|", "}", "~" >>

CodeUnit(c) == 31 + (CHOOSE k \in DOMAIN PrintableChars : PrintableChars[k] = c)

RECURSIVE TextLessFrom(_, _, _)
TextLessFrom(s, t, i) ==
    IF i > Len(t) THEN FALSE
    ELSE IF i > Len(s) THEN TRUE
    ELSE IF s[i] # t[i] THEN CodeUnit(s[i]) < CodeUnit(t[i])
    ELSE TextLessFrom(s, t, i + 1)

\* The set of texts as the sequence in lexicographic order.
RECURSIVE SortedTexts(_)
SortedTexts(ts) ==
    IF ts = {} THEN << >>
    ELSE LET least == CHOOSE t \in ts : \A u \in ts \ {t} : TextLessFrom(t, u, 1)
         IN  <<least>> \o SortedTexts(ts \ {least})

\* The texts joined with ", ".
RECURSIVE JoinedTexts(_, _)
JoinedTexts(ts, i) ==
    IF i > Len(ts) THEN << >>
    ELSE (IF i > 1 THEN <<",", " ">> ELSE << >>) \o ts[i] \o JoinedTexts(ts, i + 1)

\* The text without the white space at its ends.
Trimmed(s) ==
    LET first == SkipWhiteSpace(s, 1)
        lasts == {k \in DOMAIN s : ~IsWhiteSpace(s[k])}
    IN  IF lasts = {} THEN << >>
        ELSE SubSeq(s, first, CHOOSE k \in lasts : \A k2 \in lasts : k2 <= k)

\* The label a row's panels are to carry: its trimmed label, "Unlabeled"
\* if that is empty.
OriginLabel(r) ==
    IF Trimmed(r.label.chars) = << >>
    THEN <<"U", "n", "l", "a", "b", "e", "l", "e", "d">>
    ELSE Trimmed(r.label.chars)

\* What a group's contributingLabels is to hold for a row list.
LabelsRendered(rs, g) ==
    JoinedTexts(SortedTexts({OriginLabel(rs[i]) : i \in
        {k \in DOMAIN rs : \E p \in PanelSet(computePanelsForRow(rs[k])) :
                                Triple(p) = Triple(g)}}), 1)

\* Reading the property contributingLabels of a group: undefined when the
\* object has none.
ContributingLabelsOf(g) ==
    IF "contributingLabels" \in DOMAIN g THEN g.contributingLabels ELSE JSUndefined

\* C14: every group that aggregatePanels returns carries contributingLabels:
\* the distinct labels (trimmed, "Unlabeled" for a blank one) of the rows
\* whose panels were merged into it, sorted and joined with ", "; the Back
\* 29.25 x 28.5 of the two example rows carries both their labels.
C14_ContributingLabels ==
    pc = "done" =>
        \A g \in PanelSet(panelSummary) :
            ContributingLabelsOf(g) = Str(LabelsRendered(rows, g))

\* "PanelType,Width,Height,Count,Cabinets"
CsvHeaderClaimed ==
    << "P", "a", "n", "e", "l", "T", "y", "p", "e", ",", "W", "i", "d",
       "t", "h", ",", "H", "e", "i", "g", "h", "t", ",", "C", "o", "u",
       "n", "t", ",", "C", "a", "b", "i", "n", "e", "t", "s" >>

\* The line of a group with its five fields.
CsvLineClaimed(rs, g) ==
    LabelChars(g.label) \o <<",">> \o NumberToString(g.width) \o <<",">>
        \o NumberToString(g.height) \o <<",">> \o NumberToString(g.count)
        \o <<",">> \o LabelsRendered(rs, g)

\* C15: the CSV text built for a non-empty summary is the header line
\* PanelType,Width,Height,Count,Cabinets followed by one line per group, in
\* the order of the summary, each the five fields panel type, width,
\* height, count and cabinet labels joined by commas.
C15_CsvText ==
    (pc = "handleExportCSV" /\ panelSummary # << >>) =>
        download.text =
            JoinLines(<<CsvHeaderClaimed>>
                        \o [i \in DOMAIN panelSummary |->
                                CsvLineClaimed(rows, panelSummary[i])], 1)

\* C16: handleExportCSV called with an empty summary saves no file and
\* changes nothing; a file is saved only by a call with a non-empty
\* summary, and its name is cabinet-panels.csv.
C16_ExportNoOpWhenEmpty ==
    [][/\ (pc' = "handleExportCSV" /\ panelSummary = << >>) =>
                (download' = download /\ rows' = rows /\ panelSummary' = panelSummary)
       /\ download' # download =>
                /\ pc' = "handleExportCSV"
                /\ panelSummary # << >>
                /\ download'.name = "cabinet-panels.csv"]_vars

\* C16 happens: handleExportCSV has run with an empty summary, and no file
\* is saved.
C16_Witness ==
    /\ pc = "handleExportCSV"
    /\ panelSummary = << >>
    /\ download = NoDownload

\* C20: whatever handlers have run, the summary on display is
\* aggregatePanels of the rows now in the form.
C20_SummaryIsFresh ==
    panelSummary = aggregatePanels(rows)

\* C20 happens: after the example was loaded a field has been edited, and
\* the summary is neither empty nor the summary of the example.
C20_Witness ==
    /\ pc = "handleChange"
    /\ panelSummary # << >>
    /\ panelSummary # aggregatePanels(handleLoadExample)

RECURSIVE ReduceCounts(_, _, _)
\* ps.reduce((sum, p) => sum + p.count, sum) from element i on.
ReduceCounts(ps, i, sum) ==
    IF i > Len(ps) THEN sum
    ELSE ReduceCounts(ps, i + 1, Add(sum, ps[i].count))

\* panelSummary.reduce((sum, p) => sum + p.count, 0)
totalPanels(summary) == ReduceCounts(summary, 1, Zero)

RECURSIVE ExactTotal(_, _, _)
\* mag plus the counts of the panels ps[i..], as the sum of the real
\* numbers, not rounded.
ExactTotal(ps, i, mag) ==
    IF i > Len(ps) THEN mag
    ELSE ExactTotal(ps, i + 1, MagAdd(mag, ps[i].count.mag))

\* C21: the total on display, the sum of count over the groups of the
\* summary, is the sum of count over every panel that computePanelsForRow
\* gives for every row: be it the counts added as numbers in the order of
\* the rows, be it the sum of the real numbers.
C21_TotalIsSumOfPieces ==
    pc = "done" =>
        LET ps == RowPanels(rows, 1)
        IN  \/ totalPanels(panelSummary) = ReduceCounts(ps, 1, Zero)
            \/ totalPanels(panelSummary) = MkNum(FALSE, ExactTotal(ps, 1, ZeroMag))

\* Where every count is a whole number the total is the sum of the pieces.
C21_WholeCountsTotal ==
    pc = "done" =>
        LET ps == RowPanels(rows, 1)
        IN  (\A i \in DOMAIN ps : IsWhole(ps[i].count)) =>
                /\ totalPanels(panelSummary) = ReduceCounts(ps, 1, Zero)
                /\ totalPanels(panelSummary) = MkNum(FALSE, ExactTotal(ps, 1, ZeroMag))

\* C22: in every state that add row, duplicate row, remove row, edit
\* field, reset and load example lead to, also where two of them were
\* handled with the same captured nextId before a render, the rows have
\* pairwise distinct ids and nextId is greater than every row id.
C22_IdsDistinctBelowNextId ==
    /\ \A i, j \in DOMAIN rows : i # j => rows[i].id # rows[j].id
    /\ \A i \in DOMAIN rows : rows[i].id < nextId

\* Two rows of one id: an edit addressed to that id changes both.
C22_EditChangesTwoRows ==
    \E i, j \in DOMAIN rows :
        /\ i # j
        /\ rows[i].id = rows[j].id
        /\ handleChange(rows, rows[i].id, "label", Txt12)[i] # rows[i]
        /\ handleChange(rows, rows[i].id, "label", Txt12)[j] # rows[j]

=============================================================================
